---- MODULE Spec2Model ----
(***************************************************************************)
(* A model of src/api.py: the MediaWiki client (MediaWikiSession and       *)
(* MediaWikiAPI) together with the injected HTTP client `req`, which is    *)
(* the environment: every call draws the responses `req.get` serves.       *)
(*                                                                         *)
(* Representation of Python values:                                        *)
(*  - a str is a sequence of characters.  The fixed phrases of the two     *)
(*    move-log patterns are single symbols of the alphabet (LitVerschob,   *)
(*    LitNach, LitHat, LitNachQ, LitVerschoben); "[", "]" and "\n" are the *)
(*    characters the patterns treat specially; timestamps and dates are    *)
(*    sequences of digits 0..9, whose order is the order of their code     *)
(*    points;                                                              *)
(*  - a dict is a function whose DOMAIN is its key set; the two dicts      *)
(*    whose keys the code never reads (`pages`, `query-continue`: both are *)
(*    only passed to select_singleton_dict, which takes                    *)
(*    list(d.values())) are the sequence of their values;                  *)
(*  - the outcome of a call is Return(v) or Raise(exception name).         *)
(***************************************************************************)
EXTENDS Integers, Sequences, FiniteSets, TLC

VARIABLES
    optimize,     \* the interpreter runs with -O: assert statements are stripped
    pc,           \* "idle" before the call, "done" after it
    op,           \* the method called
    title,        \* its argument `title`
    start,        \* its argument `start`
    end,          \* its argument `end`
    responses,    \* what req.get(api_url).json() serves: the n-th request gets responses[n]
    pvResponses,  \* what req.get(page-view url).json() serves, by URL
    requests,     \* the params of the api.php requests issued, in order
    callParams,   \* the params dict of the call, as the call leaves it
    pvRequests,   \* the page-view URLs requested, with the number of requests of each
    result        \* the outcome of the call

vars == <<optimize, pc, op, title, start, end, responses, pvResponses,
          requests, callParams, pvRequests, result>>

----------------------------------------------------------------------------
(* Outcomes *)

Return(v) == [kind |-> "return", value |-> v]

Raise(e) == [kind |-> "raise", exc |-> e]

Returned(r) == r.kind = "return"

Raised(r, e) == r.kind = "raise" /\ r.exc = e

----------------------------------------------------------------------------
(* The alphabet *)

LitVerschob == "verschob die Seite "

LitNach == " nach "

\* "hat " followed by the opening quotation mark U+201E
LitHat == "hat ,,"

\* U+201C, " nach ", U+201E
LitNachQ == "'' nach ,,"

\* U+201C, " verschoben"
LitVerschoben == "'' verschoben"

Newline == "\n"

----------------------------------------------------------------------------
(* dict operations *)

EmptyDict == [k \in {} |-> 0]

\* d[k] = v
SetItem(d, k, v) == (k :> v) @@ d

\* d.update(u)
Update(d, u) == u @@ d

----------------------------------------------------------------------------
(* Module-level helpers *)

\* def select_singleton_list(lst): the assert is not executed under -O, and
\* lst[0] of an empty list raises IndexError.
select_singleton_list(lst) ==
    IF ~optimize /\ Len(lst) # 1 THEN Raise("AssertionError")
    ELSE IF Len(lst) = 0 THEN Raise("IndexError")
    ELSE Return(lst[1])

\* def select_singleton_dict(d): d is held as list(d.values()).
select_singleton_dict(d) == select_singleton_list(d)

\* The element of a path that stands for the callable select_singleton_dict.
Callable == "<select_singleton_dict>"

\* def query_json(path, json): the loop over path, from its i-th part on.
RECURSIVE query_json_from(_, _, _)
query_json_from(path, i, cur) ==
    IF i > Len(path) THEN Return(cur)
    ELSE IF path[i] = Callable
         THEN LET r == select_singleton_dict(cur)
              IN  IF Returned(r) THEN query_json_from(path, i + 1, r.value) ELSE r
         ELSE IF path[i] \in DOMAIN cur
              THEN query_json_from(path, i + 1, cur[path[i]])
              ELSE Raise("KeyError")

query_json(path, json) == query_json_from(path, 1, json)

----------------------------------------------------------------------------
(* MediaWikiSession.api_call and api_query *)

\* api_call(params): params["format"] = "json", then one GET; the n-th request
\* of a call is answered by script[n].
api_call(params, script, n) ==
    LET p == SetItem(params, "format", "json")
    IN  [params |-> p, json |-> script[n]]

\* api_query(title, params, path).  On a response with `query-continue` the
\* method evaluates `self.query`, an attribute MediaWikiSession does not have:
\* AttributeError, after params.update and before any further request.
api_query(t, params, path, script) ==
    LET p0   == SetItem(params, "action", "query")
        call == api_call(p0, script, 1)
        json == call.json
        res  == query_json(<<"query">> \o path, json)
        sent == <<call.params>>
    IN  IF ~Returned(res)
        THEN [outcome |-> res, params |-> call.params, requests |-> sent]
        ELSE IF "query-continue" \in DOMAIN json
             THEN LET c == query_json(<<"query-continue", Callable>>, json)
                  IN  IF ~Returned(c)
                      THEN [outcome |-> c, params |-> call.params, requests |-> sent]
                      ELSE [outcome  |-> Raise("AttributeError"),
                            params   |-> Update(call.params, c.value),
                            requests |-> sent]
             ELSE [outcome |-> res, params |-> call.params, requests |-> sent]

----------------------------------------------------------------------------
(* MediaWikiAPI.revisions and revisions_count *)

\* The params dict of revisions(title).
revisions_params(t) ==
    [titles |-> t, prop |-> "revisions",
     rvprop |-> "timestamp|user|size|comment", rvlimit |-> "max"]

\* revisions(title) without its try: every exception propagates
revisions_unguarded(t, script) ==
    api_query(t, revisions_params(t), <<"pages", Callable, "revisions">>, script)

\* revisions(title) with a bare except: every exception becomes []
revisions_catch_all(t, script) ==
    LET q == api_query(t, revisions_params(t),
                       <<"pages", Callable, "revisions">>, script)
    IN  IF ~Returned(q.outcome) THEN [q EXCEPT !.outcome = Return(<<>>)] ELSE q

\* revisions(title): try api_query, except KeyError: return [].
revisions(t, script) ==
    LET q == api_query(t, revisions_params(t),
                       <<"pages", Callable, "revisions">>, script)
    IN  IF ~Returned(q.outcome) /\ q.outcome.exc = "KeyError"
        THEN [q EXCEPT !.outcome = Return(<<>>)]
        ELSE q

\* Python's a < b on str: the first differing character decides, and a proper
\* prefix is smaller.
RECURSIVE str_lt(_, _)
str_lt(a, b) ==
    IF b = <<>> THEN FALSE
    ELSE IF a = <<>> THEN TRUE
    ELSE IF Head(a) # Head(b) THEN Head(a) < Head(b)
    ELSE str_lt(Tail(a), Tail(b))

\* a >= b
str_ge(a, b) == ~str_lt(a, b)

\* The filter with the end bound included
in_window_closed(x, s, e) == str_ge(x["timestamp"], s) /\ ~str_lt(e, x["timestamp"])

\* The filter of revisions_count.
in_window(x, s, e) == str_ge(x["timestamp"], s) /\ str_lt(x["timestamp"], e)

\* revisions_count(title, start, end): len of the filtered list; an exception
\* of revisions(title) propagates.
revisions_count(t, s, e, script) ==
    LET r == revisions(t, script)
    IN  IF ~Returned(r.outcome) THEN r
        ELSE [r EXCEPT !.outcome =
                 Return(Len(SelectSeq(r.outcome.value, LAMBDA x : in_window(x, s, e))))]

----------------------------------------------------------------------------
(* The move-log patterns of all_titles *)

\* The position of the first "]" of s at or after i; Len(s) + 1 when there is none.
RECURSIVE first_close(_, _)
first_close(s, i) ==
    IF i > Len(s) \/ s[i] = "]" THEN i ELSE first_close(s, i + 1)

\* re_link = "\[\[([^\]]+)\]\]" at position i of s.  The group is the longest
\* run of characters other than "]"; a shorter run is followed by a character
\* that is not "]", so backtracking finds nothing else.
re_link(s, i) ==
    LET j == first_close(s, i + 2)
    IN  IF /\ i + 1 <= Len(s)
           /\ s[i] = "["
           /\ s[i + 1] = "["
           /\ j > i + 2
           /\ j + 1 <= Len(s)
           /\ s[j + 1] = "]"
        THEN [ok |-> TRUE, group |-> SubSeq(s, i + 2, j - 1), next |-> j + 2]
        ELSE [ok |-> FALSE]

\* The literal text lit at position i of s.
literal(s, i, lit) ==
    /\ i + Len(lit) - 1 <= Len(s)
    /\ SubSeq(s, i, i + Len(lit) - 1) = lit

\* re1 = ".*verschob die Seite %s nach %s.*" % (re_link, re_link), without its
\* leading and trailing ".*"
re1 == [open |-> <<LitVerschob>>, mid |-> <<LitNach>>, close |-> <<>>]

\* re2, likewise: "hat ,,%s'' nach ,,%s'' verschoben"
re2 == [open |-> <<LitHat>>, mid |-> <<LitNachQ>>, close |-> <<LitVerschoben>>]

regs == <<re1, re2>>

None == [ok |-> FALSE]

\* The pattern between the two ".*", at position i of s.
match_at(reg, s, i) ==
    IF ~literal(s, i, reg.open) THEN None
    ELSE LET l1 == re_link(s, i + Len(reg.open))
         IN  IF ~l1.ok \/ ~literal(s, l1.next, reg.mid) THEN None
             ELSE LET l2 == re_link(s, l1.next + Len(reg.mid))
                  IN  IF ~l2.ok \/ ~literal(s, l2.next, reg.close) THEN None
                      ELSE [ok |-> TRUE, group1 |-> l1.group, group2 |-> l2.group]

\* The text "[[t]]"
Link(t) == <<"[", "[">> \o t \o <<"]", "]">>

\* The text the pattern between the two ".*" matches in full, for the link
\* targets a and b
Phrase(reg, a, b) == reg.open \o Link(a) \o reg.mid \o Link(b) \o reg.close

\* reg.fullmatch(comment) of the pattern without its two ".*"
reg_fullmatch(reg, s) ==
    IF match_at(reg, s, 1).ok
       /\ s = Phrase(reg, match_at(reg, s, 1).group1, match_at(reg, s, 1).group2)
    THEN match_at(reg, s, 1)
    ELSE None

\* The positions the leading ".*" can stop at: "." matches no newline.
match_starts(reg, s) ==
    {i \in 1..Len(s) : /\ \A k \in 1..(i - 1) : s[k] # Newline
                       /\ match_at(reg, s, i).ok}

SetMax(S) == CHOOSE x \in S : \A y \in S : y <= x

\* reg.match(comment): anchored at the start of the comment only.  The leading
\* ".*" is greedy, so the match found is the one that starts last; the trailing
\* ".*" matches the empty string where it must.
reg_match(reg, s) ==
    IF match_starts(reg, s) = {} THEN None
    ELSE match_at(reg, s, SetMax(match_starts(reg, s)))

----------------------------------------------------------------------------
(* MediaWikiAPI.all_titles *)

\* comment = x.get("comment", "") alone
comment_or_empty(x) ==
    IF "comment" \in DOMAIN x THEN Return(x["comment"]) ELSE Return(<<>>)

\* comment = x.get("comment", ""); if "comment" not in x: comment = x["commenthidden"]
comment_of(x) ==
    IF "comment" \in DOMAIN x THEN Return(x["comment"])
    ELSE IF "commenthidden" \in DOMAIN x THEN Return(x["commenthidden"])
    ELSE Raise("KeyError")

\* The arguments of the result.add calls of the inner loop for one comment.
RECURSIVE added_by_comment(_, _)
added_by_comment(comment, k) ==
    IF k > Len(regs) THEN <<>>
    ELSE LET m == reg_match(regs[k], comment)
         IN  (IF m.ok THEN <<m.group1, m.group2>> ELSE <<>>)
             \o added_by_comment(comment, k + 1)

\* The arguments of the result.add calls of the loop over the revisions.
RECURSIVE added_by_revisions(_)
added_by_revisions(revs) ==
    IF revs = <<>> THEN <<>>
    ELSE added_by_comment(comment_of(Head(revs)).value, 1)
         \o added_by_revisions(Tail(revs))

\* The add calls without result.add(title)
added_titles_unseeded(t, revs) == added_by_revisions(revs)

\* All arguments of result.add, in order: title first.
added_titles(t, revs) == <<t>> \o added_by_revisions(revs)

\* set(): the elements of a sequence of add calls
SetOf(seq) == {seq[i] : i \in DOMAIN seq}

\* all_titles(title): an exception of revisions(title) propagates, and so does
\* the KeyError of x["commenthidden"].
all_titles(t, script) ==
    LET r == revisions(t, script)
    IN  IF ~Returned(r.outcome) THEN r
        ELSE IF \E i \in DOMAIN r.outcome.value :
                    ~Returned(comment_of(r.outcome.value[i]))
             THEN [r EXCEPT !.outcome = Raise("KeyError")]
             ELSE [r EXCEPT !.outcome =
                      Return(SetOf(added_titles(t, r.outcome.value)))]

----------------------------------------------------------------------------
(* MediaWikiSession.pageviews and MediaWikiAPI.pageviews *)

\* self.domain
Domain == "de.wikibooks.org"

\* The characters quote(title, safe="") percent-encodes, with their encodings;
\* every other character of a title is a letter and is kept.
PercentCode ==
    ("/" :> "%2F") @@ (" " :> "%20") @@ ("%" :> "%25") @@ ("[" :> "%5B")
    @@ ("]" :> "%5D") @@ (Newline :> "%0A")

\* quote(title, safe="")
RECURSIVE quote(_)
quote(t) ==
    IF t = <<>> THEN <<>>
    ELSE <<IF Head(t) \in DOMAIN PercentCode THEN PercentCode[Head(t)] ELSE Head(t)>>
         \o quote(Tail(t))

\* The URL of pageviews(title, start, end), by its variable segments.
pageviews_url(t, s, e) ==
    [domain |-> Domain, title |-> quote(t), start |-> s, end |-> e]

\* int(x) of a decoded JSON value: a JSON number (key "int") is itself, a JSON
\* string of decimal digits (key "str") is read digit by digit, left to right.
RECURSIVE int_of_digits(_, _)
int_of_digits(d, acc) ==
    IF d = <<>> THEN acc ELSE int_of_digits(Tail(d), 10 * acc + Head(d))

int(v) == IF "int" \in DOMAIN v THEN v["int"] ELSE int_of_digits(v["str"], 0)

\* sum(int(x["views"]) for x in items)
RECURSIVE sum_views(_)
sum_views(items) ==
    IF items = <<>> THEN 0 ELSE int(Head(items)["views"]) + sum_views(Tail(items))

\* Session.pageviews counting the items instead of summing their views
session_pageviews_count(t, s, e, pv) ==
    LET json == pv[pageviews_url(t, s, e)]
    IN  IF "items" \in DOMAIN json THEN Len(json["items"]) ELSE 0

\* Session.pageviews(title, start, end): pv maps each URL to the decoded body
\* the endpoint serves for it.
session_pageviews(t, s, e, pv) ==
    LET json == pv[pageviews_url(t, s, e)]
    IN  IF "items" \in DOMAIN json THEN sum_views(json["items"]) ELSE 0

\* sum(self.session.pageviews(x, start, end) for x in iter), iter the sequence
\* an iteration yields
RECURSIVE sum_pageviews(_, _, _, _)
sum_pageviews(iter, s, e, pv) ==
    IF iter = <<>> THEN 0
    ELSE session_pageviews(Head(iter), s, e, pv) + sum_pageviews(Tail(iter), s, e, pv)

\* The page-view requests of an iteration over the titles iter (a sequence):
\* each URL with the number of requests made of it.
requested(iter, s, e) ==
    [u \in {pageviews_url(iter[i], s, e) : i \in DOMAIN iter} |->
        Cardinality({i \in DOMAIN iter : pageviews_url(iter[i], s, e) = u})]

\* A set as the sequence of one iteration over it.
RECURSIVE iteration(_)
iteration(T) ==
    IF T = {} THEN <<>>
    ELSE LET x == CHOOSE y \in T : TRUE IN <<x>> \o iteration(T \ {x})

\* API.pageviews over a list of titles that keeps every add call
pageviews_list(t, s, e, script, pv) ==
    LET a == all_titles(t, script)
        r == revisions(t, script)
    IN  IF ~Returned(a.outcome)
        THEN [api |-> a, outcome |-> a.outcome, pvRequests |-> EmptyDict]
        ELSE [api        |-> a,
              outcome    |-> Return(sum_pageviews(added_titles(t, r.outcome.value), s, e, pv)),
              pvRequests |-> requested(added_titles(t, r.outcome.value), s, e)]

\* API.pageviews(title, start, end): the sum over the set all_titles(title); an
\* exception of all_titles propagates before any page-view request.
pageviews(t, s, e, script, pv) ==
    LET a == all_titles(t, script)
    IN  IF ~Returned(a.outcome)
        THEN [api |-> a, outcome |-> a.outcome, pvRequests |-> EmptyDict]
        ELSE [api        |-> a,
              outcome    |-> Return(sum_pageviews(iteration(a.outcome.value), s, e, pv)),
              pvRequests |-> requested(iteration(a.outcome.value), s, e)]

----------------------------------------------------------------------------
(* The inputs: titles, dates, comments *)

\* The most revisions a page object carries
MaxRevs == 2

\* The most page objects of a `pages` object
MaxPages == 2

\* The most entries of a `query-continue` object
MaxCont == 2

\* The responses the server holds ready after the first
MaxFollowing == 1

\* The most items of a page-view response
MaxItems == 2

TitleA == <<"A">>

TitleB == <<"B">>

\* a subpage: its "/" is percent-encoded by quote
TitleC == <<"C", "/", "D">>

TitleTexts == {TitleA, TitleB, TitleC}

\* Timestamps, start and end: "1", "10", "2".  "10" < "2" as strings.
Dates == {<<1>>, <<1, 0>>, <<2>>}

\* Text before a move phrase, on the same line
Pres == {<<>>, <<"x">>, <<"x", " ">>}

\* Text after a move phrase
Posts == {<<>>, <<"x">>, <<Newline, "x">>}

Comments ==
    { <<>>,
      <<"x">>,
      Phrase(re1, TitleA, TitleB),
      Phrase(re2, TitleB, TitleC),
      Phrase(re1, TitleA, TitleB) \o <<"x">>,
      Phrase(re2, TitleA, TitleC) \o <<Newline, "x">>,
      <<"x", " ">> \o Phrase(re2, TitleB, TitleC),
      <<"x">> \o Phrase(re1, TitleC, TitleA) \o <<"x">>,
      <<"x", Newline>> \o Phrase(re1, TitleA, TitleC),
      Phrase(re1, TitleA, TitleB) \o <<"x">> \o Phrase(re1, TitleC, TitleC),
      <<LitVerschob>> \o Link(TitleA) \o <<LitNach, "[", "[">> \o TitleB \o <<"]">> }

\* The `commenthidden` values
HiddenComments == {<<>>, Phrase(re1, TitleB, TitleC)}

Revision(ts, key, text) == [timestamp |-> ts] @@ (key :> text)

\* Revisions that differ in their timestamps
DatedRevisions == {Revision(ts, "comment", <<"x">>) : ts \in Dates}

\* Revisions that differ in their comments; the last has neither key
CommentedRevisions ==
    {Revision(<<1>>, "comment", c) : c \in Comments}
    \cup {Revision(<<1>>, "commenthidden", c) : c \in HiddenComments}
    \cup {[timestamp |-> <<1>>]}

\* Revisions of an article that was moved
MovedRevisions ==
    {Revision(<<1>>, "comment", c) :
        c \in {<<"x">>, Phrase(re1, TitleA, TitleB), Phrase(re2, TitleB, TitleA),
               Phrase(re1, TitleB, TitleC) \o <<"x">>}}

RevLists(R) == UNION {[1..n -> R] : n \in 0..MaxRevs}

----------------------------------------------------------------------------
(* The inputs: what api.php serves *)

\* A page object without revisions (a missing page), and one with
MissingPage == [ns |-> 0]

Page(revs) == [ns |-> 0, revisions |-> revs]

\* The page objects of a malformed `pages` object
FewPages == {MissingPage, Page(<<>>), Page(<<Revision(<<1>>, "comment", <<"x">>)>>)}

PageLists ==
    {<<>>} \cup {<<p>> : p \in FewPages}
    \cup UNION {[1..n -> FewPages] : n \in 2..MaxPages}

\* The entries of a `query-continue` object
ContLists == UNION {[1..n -> {[rvcontinue |-> "2"]}] : n \in 0..MaxCont}

ContParts == {EmptyDict} \cup {("query-continue" :> c) : c \in ContLists}

QueryParts ==
    {EmptyDict, [query |-> EmptyDict]} \cup {[query |-> [pages |-> ps]] : ps \in PageLists}

\* The responses of every shape
ShapeResponses == {q @@ c : q \in QueryParts, c \in ContParts}

\* A well-formed last page
DataResponse(revs) == [query |-> [pages |-> <<Page(revs)>>]]

\* The responses held ready after the first
FollowResponses ==
    { DataResponse(<<Revision(<<2>>, "comment", <<"x">>)>>),
      DataResponse(<<>>) @@ ("query-continue" :> <<[rvcontinue |-> "3"]>>),
      EmptyDict }

Followings == [1..MaxFollowing -> FollowResponses]

DefaultFollowing == [n \in 1..MaxFollowing |-> EmptyDict]

\* A first response of any shape; what follows it varies when it asks to continue
ShapeScripts ==
    {<<r>> \o f : r \in {x \in ShapeResponses : "query-continue" \in DOMAIN x},
                  f \in Followings}
    \cup {<<r>> \o DefaultFollowing :
             r \in {x \in ShapeResponses : "query-continue" \notin DOMAIN x}}

\* A single well-formed page of revisions over R
DataScripts(R) == {<<DataResponse(revs)>> \o DefaultFollowing : revs \in RevLists(R)}

----------------------------------------------------------------------------
(* The inputs: what the page-view endpoint serves *)

\* The values of `views`: JSON numbers and JSON strings
ViewValues == {[int |-> 5], [str |-> <<7>>], [str |-> <<1, 2>>]}

ItemLists == UNION {[1..n -> {[views |-> v] : v \in ViewValues}] : n \in 0..MaxItems}

PvBodies == {EmptyDict} \cup {[items |-> xs] : xs \in ItemLists}

FewPvBodies == {EmptyDict, [items |-> <<[views |-> [int |-> 5]]>>],
                [items |-> <<[views |-> [str |-> <<7>>]], [views |-> [int |-> 5]]>>]}

PvUrls(T, s, e) == {pageviews_url(t, s, e) : t \in T}

----------------------------------------------------------------------------
(* The calls *)

NoDate == <<>>

Init ==
    /\ optimize \in BOOLEAN
    /\ pc = "idle"
    /\ op = "none"
    /\ title = <<>>
    /\ start = NoDate
    /\ end = NoDate
    /\ responses = <<>>
    /\ pvResponses = EmptyDict
    /\ requests = <<>>
    /\ callParams = EmptyDict
    /\ pvRequests = EmptyDict
    /\ result = Return("None")

\* The state a call of the facade that queries api.php leaves: q is what the
\* call made of the script.
ApiCall(name, t, s, e, script, q) ==
    /\ pc' = "done"
    /\ op' = name
    /\ title' = t
    /\ start' = s
    /\ end' = e
    /\ responses' = script
    /\ requests' = q.requests
    /\ callParams' = q.params
    /\ result' = q.outcome
    /\ UNCHANGED optimize

\* api.revisions(title)
Revisions ==
    /\ pc = "idle"
    /\ \E t \in {TitleA, TitleC}, script \in ShapeScripts \cup DataScripts(DatedRevisions) :
          ApiCall("revisions", t, NoDate, NoDate, script, revisions(t, script))
    /\ UNCHANGED <<pvResponses, pvRequests>>

\* api.revisions_count(title, start, end)
RevisionsCount ==
    /\ pc = "idle"
    /\ \E s \in Dates, e \in Dates,
          script \in ShapeScripts \cup DataScripts(DatedRevisions) :
          ApiCall("revisions_count", TitleA, s, e, script,
                  revisions_count(TitleA, s, e, script))
    /\ UNCHANGED <<pvResponses, pvRequests>>

\* api.all_titles(title)
AllTitles ==
    /\ pc = "idle"
    /\ \E t \in {TitleA, TitleC},
          script \in ShapeScripts \cup DataScripts(CommentedRevisions) :
          ApiCall("all_titles", t, NoDate, NoDate, script, all_titles(t, script))
    /\ UNCHANGED <<pvResponses, pvRequests>>

\* api.pageviews(title, start, end)
Pageviews ==
    /\ pc = "idle"
    /\ \E t \in {TitleA, TitleC},
          script \in DataScripts(MovedRevisions)
                     \cup {<<r>> \o DefaultFollowing : r \in {EmptyDict, [query |-> [pages |-> <<>>]]}}
                     \cup {<<DataResponse(<<>>) @@ ("query-continue" :> <<[rvcontinue |-> "2"]>>)>>
                             \o f : f \in Followings},
          pv \in [PvUrls(TitleTexts, <<1>>, <<2>>) -> FewPvBodies] :
          LET v == pageviews(t, <<1>>, <<2>>, script, pv)
          IN  /\ ApiCall("pageviews", t, <<1>>, <<2>>, script,
                         [v.api EXCEPT !.outcome = v.outcome])
              /\ pvResponses' = pv
              /\ pvRequests' = v.pvRequests

\* session.pageviews(title, start, end)
SessionPageviews ==
    /\ pc = "idle"
    /\ \E t \in TitleTexts, s \in {<<1>>}, e \in {<<1, 0>>, <<2>>}, body \in PvBodies :
          /\ pc' = "done"
          /\ op' = "session.pageviews"
          /\ title' = t
          /\ start' = s
          /\ end' = e
          /\ pvResponses' = (pageviews_url(t, s, e) :> body)
          /\ pvRequests' = (pageviews_url(t, s, e) :> 1)
          /\ result' = Return(session_pageviews(t, s, e, (pageviews_url(t, s, e) :> body)))
    /\ UNCHANGED <<optimize, responses, requests, callParams>>

Next ==
    \/ Revisions
    \/ RevisionsCount
    \/ AllTitles
    \/ Pageviews
    \/ SessionPageviews

Spec == Init /\ [][Next]_vars

----------------------------------------------------------------------------
(* Vocabulary of the properties *)

Done(name) == pc = "done" /\ op = name

\* The first response of the call
First == responses[1]

Continues(r) == "query-continue" \in DOMAIN r

\* r asks to continue with exactly one set of continuation parameters
ContinuesWithOne(r) == Continues(r) /\ Len(r["query-continue"]) = 1

HasPages(r) == "query" \in DOMAIN r /\ "pages" \in DOMAIN r["query"]

\* r holds exactly one page object and it has revisions
HasRevisions(r) ==
    /\ HasPages(r)
    /\ Len(r["query"]["pages"]) = 1
    /\ "revisions" \in DOMAIN r["query"]["pages"][1]

PageRevisions(r) == r["query"]["pages"][1]["revisions"]

\* r lacks a key the lookup expects: `query`, `pages`, or the `revisions` of
\* its single page object
LacksKey(r) ==
    \/ "query" \notin DOMAIN r
    \/ "pages" \notin DOMAIN r["query"]
    \/ /\ Len(r["query"]["pages"]) = 1
       /\ "revisions" \notin DOMAIN r["query"]["pages"][1]

\* The revisions the lookup of the call yields
Served == revisions(title, responses).outcome.value

\* s is the text all_titles is to scan in revision x: its comment, or its
\* commenthidden when it has no comment
Scans(x, s) ==
    \/ "comment" \in DOMAIN x /\ x["comment"] = s
    \/ "comment" \notin DOMAIN x /\ "commenthidden" \in DOMAIN x /\ x["commenthidden"] = s

\* The link targets of the comments that are a move phrase and nothing else
ExactTitles(revs) ==
    UNION {{a, b} : <<a, b>> \in
        {p \in TitleTexts \X TitleTexts :
            \E i \in DOMAIN revs, k \in DOMAIN regs :
                Scans(revs[i], Phrase(regs[k], p[1], p[2]))}}

\* a < b in lexicographic order: b continues a, or they first differ at a
\* position where a has the smaller character
LexLess(a, b) ==
    \E k \in 1..Len(b) :
        /\ k - 1 <= Len(a)
        /\ \A j \in 1..(k - 1) : a[j] = b[j]
        /\ (k > Len(a) \/ a[k] < b[k])

RECURSIVE SumTo(_, _)
SumTo(f, n) == IF n = 0 THEN 0 ELSE f[n] + SumTo(f, n - 1)

RECURSIVE Pow10(_)
Pow10(n) == IF n = 0 THEN 1 ELSE 10 * Pow10(n - 1)

\* The number a string of decimal digits denotes
DecimalValue(d) == SumTo([i \in 1..Len(d) |-> d[i] * Pow10(Len(d) - i)], Len(d))

ViewsOf(x) ==
    IF "int" \in DOMAIN x["views"] THEN x["views"]["int"]
    ELSE DecimalValue(x["views"]["str"])

RECURSIVE SumOverTitles(_, _)
SumOverTitles(T, pv) ==
    IF T = {} THEN 0
    ELSE LET x == CHOOSE y \in T : TRUE
         IN  session_pageviews(x, start, end, pv) + SumOverTitles(T \ {x}, pv)

----------------------------------------------------------------------------
(* Properties *)

\* C1: when the first response to revisions(title) carries a query-continue
\* token and the second carries none, the result is the first page's
\* revisions followed by the second page's.
C1_Pagination ==
    ( /\ Done("revisions")
      /\ HasRevisions(First) /\ ContinuesWithOne(First)
      /\ HasRevisions(responses[2]) /\ ~Continues(responses[2]) )
    => /\ Returned(result)
       /\ result.value = PageRevisions(First) \o PageRevisions(responses[2])

\* C2 as stated: only a comment that is a move phrase and nothing else
\* contributes titles, so every title of the result other than `title` is a
\* link target of such a comment.
C2_FullStringOnly ==
    (Done("all_titles") /\ Returned(result))
    => result.value \subseteq {title} \cup ExactTitles(Served)

\* C2 as amended: a comment made of one move phrase with extra text before it
\* on the same line or after it contributes both link targets of the phrase.
C2_PartialMatch ==
    (Done("all_titles") /\ Returned(result))
    => \A i \in DOMAIN Served, k \in DOMAIN regs, pre \in Pres, post \in Posts,
          a \in TitleTexts, b \in TitleTexts :
          ( /\ pre \o post # <<>>
            /\ Scans(Served[i], pre \o Phrase(regs[k], a, b) \o post) )
          => {a, b} \subseteq result.value

\* C2, witness: all_titles("C/D") over one comment that is a move phrase followed
\* by "x" returns the title and both link targets.
C2_Witness ==
    /\ Done("all_titles")
    /\ title = TitleC
    /\ First = DataResponse(<<Revision(<<1>>, "comment",
                                        Phrase(re1, TitleA, TitleB) \o <<"x">>)>>)
    /\ Returned(result)
    /\ result.value = {TitleA, TitleB, TitleC}

\* C3: when the response lacks an expected key, revisions(title) returns the
\* empty sequence.
C3_MissingKey ==
    (Done("revisions") /\ LacksKey(First))
    => (Returned(result) /\ result.value = <<>>)

\* C3, witness: revisions(title) of a missing page (one page object without
\* `revisions`) returns [].
C3_Witness ==
    /\ Done("revisions")
    /\ First = [query |-> [pages |-> <<MissingPage>>]]
    /\ Returned(result)
    /\ result.value = <<>>

\* C4: revisions_count is the number of revisions with start <= timestamp < end
\* in lexicographic order.
C4_Count ==
    (Done("revisions_count") /\ Returned(result))
    => result.value =
         Cardinality({i \in DOMAIN Served :
             /\ (start = Served[i]["timestamp"] \/ LexLess(start, Served[i]["timestamp"]))
             /\ LexLess(Served[i]["timestamp"], end)})

\* C4, witness: of two revisions, one stamped start and one stamped end, only
\* the first is counted.
C4_Witness ==
    /\ Done("revisions_count")
    /\ Returned(result)
    /\ Len(Served) = 2
    /\ Served[1]["timestamp"] = start
    /\ Served[2]["timestamp"] = end
    /\ result.value = 1

\* C5: the facade's pageviews is the sum of session.pageviews(t, start, end)
\* over the distinct t of all_titles(title), each requested exactly once.
C5_SumOverTitles ==
    (Done("pageviews") /\ Returned(result))
    => LET T == all_titles(title, responses).outcome.value
       IN  /\ result.value = SumOverTitles(T, pvResponses)
           /\ DOMAIN pvRequests = PvUrls(T, start, end)
           /\ \A u \in DOMAIN pvRequests : pvRequests[u] = 1

\* C5, witness: title A occurs in two move comments beside B; A and B have 5
\* views each and the total is 10.
C5_Witness ==
    /\ Done("pageviews")
    /\ Returned(result)
    /\ title = TitleA
    /\ Len(Served) = 2
    /\ \A i \in DOMAIN Served :
          \/ Scans(Served[i], Phrase(re1, TitleA, TitleB))
          \/ Scans(Served[i], Phrase(re2, TitleB, TitleA))
    /\ \A u \in PvUrls({TitleA, TitleB}, start, end) :
          pvResponses[u] = [items |-> <<[views |-> [int |-> 5]]>>]
    /\ result.value = 10

\* C6: the set all_titles(title) returns contains title.
C6_ContainsTitle ==
    (Done("all_titles") /\ Returned(result)) => title \in result.value

\* C6, witness: with no revisions all_titles(title) returns {title}.
C6_Witness ==
    /\ Done("all_titles")
    /\ First = DataResponse(<<>>)
    /\ Returned(result)
    /\ result.value = {title}

\* C7: session pageviews returns 0 when the response has no `items` key, and
\* otherwise the sum of the integer values of `views` over the items.
C7_SessionPageviews ==
    Done("session.pageviews")
    => LET body == pvResponses[pageviews_url(title, start, end)]
       IN  /\ Returned(result)
           /\ result.value =
                IF "items" \in DOMAIN body
                THEN SumTo([i \in 1..Len(body["items"]) |-> ViewsOf(body["items"][i])],
                           Len(body["items"]))
                ELSE 0

\* C7, witness: a body without `items` gives 0.
C7_Witness ==
    /\ Done("session.pageviews")
    /\ "items" \notin DOMAIN pvResponses[pageviews_url(title, start, end)]
    /\ Returned(result)
    /\ result.value = 0

\* C8 as stated: when `pages` holds zero or more than one page object,
\* revisions(title) returns the empty sequence.
C8_SingletonCaught ==
    (Done("revisions") /\ HasPages(First) /\ Len(First["query"]["pages"]) # 1)
    => (Returned(result) /\ result.value = <<>>)

\* C8 as amended: the failure of the singleton selection is not caught.  With
\* no page object the call raises (AssertionError, or IndexError when asserts
\* are stripped); with more than one it raises AssertionError unless asserts
\* are stripped.
C8_SingletonPropagates ==
    (Done("revisions") /\ HasPages(First))
    => /\ Len(First["query"]["pages"]) = 0
            => Raised(result, IF optimize THEN "IndexError" ELSE "AssertionError")
       /\ (Len(First["query"]["pages"]) > 1 /\ ~optimize)
            => Raised(result, "AssertionError")

\* C8, witness: with two page objects and asserts enabled, revisions(title)
\* raises AssertionError.
C8_Witness ==
    /\ Done("revisions")
    /\ ~optimize
    /\ HasPages(First)
    /\ Len(First["query"]["pages"]) = 2
    /\ Raised(result, "AssertionError")

\* C9: when the k-th response is the first without query-continue, api_query
\* issues exactly k requests, each later one with the parameters of the one
\* before merged with the continuation parameters of the response before, and
\* returns a result.
C9_Requests ==
    \A k \in DOMAIN responses :
        ( /\ Done("revisions")
          /\ ~Continues(responses[k])
          /\ \A j \in 1..k : HasRevisions(responses[j])
          /\ \A j \in 1..(k - 1) : ContinuesWithOne(responses[j]) )
        => /\ Returned(result)
           /\ Len(requests) = k
           /\ \A n \in 2..Len(requests) :
                 requests[n] = Update(requests[n - 1], responses[n - 1]["query-continue"][1])

\* C10: all_titles scans the comment of every revision, or its commenthidden
\* when it has no comment; when that text is exactly a move phrase with link
\* targets a and b, both are in the result.
C10_ExactMatch ==
    (Done("all_titles") /\ Returned(result))
    => \A i \in DOMAIN Served, k \in DOMAIN regs, a \in TitleTexts, b \in TitleTexts :
          Scans(Served[i], Phrase(regs[k], a, b)) => {a, b} \subseteq result.value

\* C10, witness: a revision with only `commenthidden`, which is exactly a move
\* phrase from B to C/D, adds B and C/D to the titles of A.
C10_Witness ==
    /\ Done("all_titles")
    /\ title = TitleA
    /\ First = DataResponse(<<Revision(<<1>>, "commenthidden", Phrase(re1, TitleB, TitleC))>>)
    /\ Returned(result)
    /\ result.value = {TitleA, TitleB, TitleC}

====
